---------------------------- MODULE Spec2Model ----------------------------
(***************************************************************************)
(* Voice-To-Post backend (src/main.py): the /confirm-post handler, the     *)
(* process-global BackgroundScheduler it feeds, and the /generate-post     *)
(* pipeline with its safety gate.                                          *)
(*                                                                         *)
(* Time is counted in whole seconds since Epoch, the instant               *)
(* 2026-11-03T00:00:00.  Strings the code inspects (scheduled_time, the    *)
(* transcript, the generator's str result) are tuples of one-character     *)
(* strings, so that parsing and prefix tests are computed, not assumed.    *)
(***************************************************************************)
EXTENDS Integers, Sequences, FiniteSets, TLC

\* ------------------------------------------------------------------ bounds

\* The clock runs from 0 to MaxTime seconds after Epoch.
MaxTime == 2
\* At most MaxJobs calls of scheduler.add_job are accepted in one run.
MaxJobs == 2
\* At most MaxRequests HTTP requests are handled in one run.
MaxRequests == 2

\* ------------------------------------------------------- strings as tuples

Digits == <<"0", "1", "2", "3", "4", "5", "6", "7", "8", "9">>

IsDigit(c) == \E i \in 1..10 : Digits[i] = c

DigitVal(c) == (CHOOSE i \in 1..10 : Digits[i] = c) - 1

AllDigits(s, lo, hi) == \A i \in lo..hi : IsDigit(s[i])

\* The decimal number written in s[lo..hi] (all of them digits).
RECURSIVE Num(_, _, _)
Num(s, lo, hi) ==
    IF hi < lo THEN 0 ELSE 10 * Num(s, lo, hi - 1) + DigitVal(s[hi])

\* str.startswith
StartsWith(s, prefix) ==
    /\ Len(s) >= Len(prefix)
    /\ SubSeq(s, 1, Len(prefix)) = prefix

\* Optional[str]: None, or a one-element tuple holding the string.
None == << >>

Some(s) == << s >>

\* Python truthiness of an Optional[str]: None and "" are both falsy.
Truthy(opt) == opt # None /\ Len(opt[1]) > 0

\* ------------------------------------------------- datetime.fromisoformat

IsLeap(y) == (y % 4 = 0 /\ y % 100 # 0) \/ y % 400 = 0

DaysInMonth(y, m) ==
    IF m = 2 THEN (IF IsLeap(y) THEN 29 ELSE 28)
    ELSE IF m \in {4, 6, 9, 11} THEN 30 ELSE 31

ValueError == [ok |-> FALSE]

\* YYYY-MM-DD at s[1..10].
DateOk(s) ==
    /\ AllDigits(s, 1, 4) /\ s[5] = "-"
    /\ AllDigits(s, 6, 7) /\ s[8] = "-"
    /\ AllDigits(s, 9, 10)
    /\ Num(s, 1, 4) >= 1
    /\ Num(s, 6, 7) \in 1..12
    /\ Num(s, 9, 10) \in 1..DaysInMonth(Num(s, 1, 4), Num(s, 6, 7))

\* HH:MM at s[12..16], after a one-character separator at s[11].
HourMinuteOk(s) ==
    /\ AllDigits(s, 12, 13) /\ s[14] = ":"
    /\ AllDigits(s, 15, 16)
    /\ Num(s, 12, 13) \in 0..23
    /\ Num(s, 15, 16) \in 0..59

\* :SS at s[17..19].
SecondOk(s) ==
    /\ s[17] = ":"
    /\ AllDigits(s, 18, 19)
    /\ Num(s, 18, 19) \in 0..59

\* datetime.fromisoformat on the forms YYYY-MM-DD, YYYY-MM-DD?HH:MM and
\* YYYY-MM-DD?HH:MM:SS (? is any one character); every other string of the
\* model raises ValueError.
fromisoformat(s) ==
    IF Len(s) \in {10, 16, 19} /\ DateOk(s)
       /\ (Len(s) >= 16 => HourMinuteOk(s))
       /\ (Len(s) = 19 => SecondOk(s))
    THEN [ok     |-> TRUE,
          year   |-> Num(s, 1, 4),
          month  |-> Num(s, 6, 7),
          day    |-> Num(s, 9, 10),
          hour   |-> IF Len(s) >= 16 THEN Num(s, 12, 13) ELSE 0,
          minute |-> IF Len(s) >= 16 THEN Num(s, 15, 16) ELSE 0,
          second |-> IF Len(s) = 19 THEN Num(s, 18, 19) ELSE 0]
    ELSE ValueError

\* Seconds from Epoch (2026-11-03T00:00:00) to dt, for dt in November 2026:
\* the instant the date trigger compares with the scheduler's clock.
Timestamp(dt) ==
    (dt.day - 3) * 86400 + dt.hour * 3600 + dt.minute * 60 + dt.second

\* --------------------------------------------------------- request inputs

DatePrefix == <<"2", "0", "2", "6", "-", "1", "1", "-", "0", "3">>

\* "2026-11-03T00:00:0t", t seconds after Epoch (t in 0..9).
IsoAt(t) ==
    DatePrefix \o <<"T", "0", "0", ":", "0", "0", ":", "0", Digits[t + 1]>>

EmptyStr == << >>

NotADate == <<"n", "o", "t", "-", "a", "-", "d", "a", "t", "e">>

\* ISO-shaped, but month 13.
BadMonth ==
    <<"2", "0", "2", "6", "-", "1", "3", "-", "0", "3",
      "T", "0", "0", ":", "0", "0", ":", "0", "0">>

\* The values of ConfirmPostRequest.scheduled_time the model sends.
ScheduledTimes ==
    {None, Some(EmptyStr), Some(NotADate), Some(BadMonth)}
        \cup {Some(IsoAt(t)) : t \in 0..MaxTime}

Platforms == {"twitter"}

Texts == {"post-a", "post-b"}

ErrorPrefix == <<"E", "r", "r", "o", "r">>

ERRORPrefix == <<"E", "R", "R", "O", "R">>

\* "Error transcribing audio", what transcribe_audio_bytes returns from its
\* except branches (the cause that follows the prefix is left out).
ErrorTranscribing ==
    ErrorPrefix \o <<" ", "t", "r", "a", "n", "s", "c", "r", "i", "b", "i",
                     "n", "g", " ", "a", "u", "d", "i", "o">>

\* "Error generating post", what generate_post_rag returns from its
\* except branch.
ErrorGenerating ==
    ErrorPrefix \o <<" ", "g", "e", "n", "e", "r", "a", "t", "i", "n", "g",
                     " ", "p", "o", "s", "t">>

\* A transcript Deepgram recognised.
Spoken == <<"l", "a", "u", "n", "c", "h">>

\* ------------------------------------------------------------------ state

VARIABLES
    now,        \* the wall clock, seconds since Epoch
    jobs,       \* every job add_job accepted, in order; the job's id is its index
    published,  \* the calls of publish_to_social_media, in order
    reqNo,      \* the number of requests handled so far
    req,        \* the last request received
    resp,       \* the response to the last confirm-post request
    gp,         \* the generate-post request in flight or the last one
                \* answered, with its response
    gated       \* the texts the gate has let through so far

vars == <<now, jobs, published, reqNo, req, resp, gp, gated>>

NoRequest ==
    [handler |-> "", scheduled_time |-> None, platform |-> "", text |-> ""]

NoResponse == [handler |-> "", http |-> 0, status |-> ""]

\* BackgroundScheduler() keeps the default job_defaults: a run later than
\* misfire_grace_time seconds after its run time is skipped.
misfire_grace_time == 1

\* The jobs still in the job store.
Pending == {j \in 1..Len(jobs) : jobs[j].state = "pending"}

\* The jobs handed to the executor whose run has not happened yet.
Submitted == {j \in 1..Len(jobs) : jobs[j].state = "submitted"}

\* publish_to_social_media(platform, text); job is 0 for the handler's own
\* call and the job's id for a call made by the scheduler's executor.
publish_to_social_media(platform, text, job) ==
    Append(published, [platform |-> platform, text |-> text, job |-> job])

\* scheduler.add_job(publish_to_social_media, 'date', run_date=dt, args=...):
\* the job goes to the store with next_run_time = run_date, past or not.
\* past_due records whether run_date had passed when the job was accepted.
add_job(dt, platform, text) ==
    Append(jobs, [run_date |-> Timestamp(dt), platform |-> platform,
                  text |-> text, state |-> "pending",
                  past_due |-> Timestamp(dt) <= now])

\* ------------------------------------------------- the pipeline's calls

\* Scores and distances are counted in hundredths: 0.75 is 75, -1.0 is -100.
PASS_THRESHOLD == 75

SentinelDistance == -100

top_k == 3

\* What transcribe_audio_bytes returns: the transcript Deepgram gave (it may
\* be empty), or, from either except branch, a text starting with "Error".
\* failed records which of the two happened.
TranscribeOutcomes ==
    {[failed |-> TRUE, text |-> ErrorTranscribing],
     [failed |-> FALSE, text |-> EmptyStr],
     [failed |-> FALSE, text |-> Spoken]}

\* vector_store.search_index(transcript, top_k=3): at most top_k results,
\* nearest first, each with its distance; or the call raises.
SearchOutcomes ==
    {[raised |-> TRUE, results |-> << >>]}
        \cup {[raised |-> FALSE, results |-> r] :
                r \in {d \in {<< >>, <<10, 20, 60>>} :
                          Len(d) <= top_k}}

RECURSIVE Sum(_)
Sum(ds) == IF ds = << >> THEN 0 ELSE ds[1] + Sum(Tail(ds))

\* sum(distances) / len(results) if results else -1.0  (the distances of
\* SearchOutcomes divide exactly)
avg_distance(results) ==
    IF results # << >> THEN Sum(results) \div Len(results)
    ELSE SentinelDistance

\* The five variations of a generation whose first candidate has text p.
Variations(p) ==
    <<[text |-> p], [text |-> "v2"], [text |-> "v3"],
      [text |-> "v4"], [text |-> "v5"]>>

\* Whether generate_post_rag takes the keyword tone that the handler passes.
\* The function of src/generation_service.py does not (the call raises
\* TypeError); the handler is written for one that does and that returns
\* five dictionaries.
AcceptsTone == {FALSE, TRUE}

\* What a generate_post_rag that takes tone evaluates to: five variations,
\* an exception, or the str of its except branch.
GenerateResults ==
    {[kind |-> "raise", items |-> << >>, chars |-> << >>],
     [kind |-> "str", items |-> << >>, chars |-> ErrorGenerating]}
        \cup {[kind |-> "list", items |-> Variations(p), chars |-> << >>] :
                p \in {"", "post-a"}}

\* How the awaited generator call ended, as gp.generation records it.
GenerationOutcome(g) ==
    IF g.kind = "raise" THEN "raised"
    ELSE IF g.kind = "str" THEN "error_str"
    ELSE "returned"

\* scoring.calculate_safety_score(text, avg_distance)["final_score"]: the
\* formula is not fixed, only that an empty text scores 0.
calculate_safety_score(text, avg) ==
    IF text = "" THEN {0} ELSE {74, 75}

\* A handler that scores the generator's result itself when it is a str.
PrimaryText_str(g) ==
    IF g.kind = "list"
    THEN [ok |-> TRUE, text |-> g.items[1].text]
    ELSE [ok |-> TRUE, text |-> "Error generating post"]

\* generated_variations[0]['text']: a str cannot be indexed by 'text'
\* (TypeError).
PrimaryText(g) ==
    IF g.kind = "list"
    THEN [ok |-> TRUE, text |-> g.items[1].text]
    ELSE [ok |-> FALSE, text |-> ""]

\* A gate that tests the score's truthiness: if c_score
Gate_truthy(c_score) == c_score # 0

\* A gate that excludes the threshold itself: if c_score > 0.75
Gate_strict(c_score) == c_score > PASS_THRESHOLD

\* if c_score >= 0.75
Gate(c_score) == c_score >= PASS_THRESHOLD

IdlePipeline ==
    [pc |-> "idle", transcribe_failed |-> FALSE, transcript |-> EmptyStr,
     retrieval |-> "not_called", results |-> << >>, avg_distance |-> None,
     generation |-> "not_called", scored |-> << >>, variations |-> None,
     response |-> NoResponse]

Init ==
    /\ now = 0
    /\ jobs = << >>
    /\ published = << >>
    /\ reqNo = 0
    /\ req = NoRequest
    /\ resp = NoResponse
    /\ gp = IdlePipeline
    /\ gated = {}

\* --------------------------------------------------------------- handlers

\* An else branch that hands the post to the scheduler, to run now.
publish_immediately_via_scheduler(request) ==
    /\ jobs' = Append(jobs, [run_date |-> now, platform |-> request.platform,
                             text |-> request.text, state |-> "pending",
                             past_due |-> TRUE])
    /\ published' = published
    /\ resp' = [handler |-> "confirm_post", http |-> 200,
                status |-> "published_immediately"]

\* The else branch of confirm_post: the publish action is called in the
\* handler and the scheduler is left alone.
publish_immediately(request) ==
    /\ published' =
           publish_to_social_media(request.platform, request.text, 0)
    /\ jobs' = jobs
    /\ resp' = [handler |-> "confirm_post", http |-> 200,
                status |-> "published_immediately"]

\* POST /confirm-post: the handler has no await, so it runs as one step.
confirm_post(request) ==
    /\ reqNo < MaxRequests
    /\ reqNo' = reqNo + 1
    /\ req' = [handler |-> "confirm_post",
               scheduled_time |-> request.scheduled_time,
               platform |-> request.platform, text |-> request.text]
    /\ UNCHANGED <<now, gp, gated>>
    /\ IF Truthy(request.scheduled_time)
       THEN LET dt == fromisoformat(request.scheduled_time[1]) IN
            IF dt.ok
            THEN /\ Len(jobs) < MaxJobs
                 /\ jobs' = add_job(dt, request.platform, request.text)
                 /\ published' = published
                 /\ resp' = [handler |-> "confirm_post", http |-> 200,
                             status |-> "scheduled"]
            ELSE /\ jobs' = jobs
                 /\ published' = published
                 /\ resp' = [handler |-> "confirm_post", http |-> 400,
                             status |-> "error"]
       ELSE publish_immediately(request)

ConfirmPost ==
    \E p \in Platforms, t \in Texts, st \in ScheduledTimes :
        confirm_post([scheduled_time |-> st, platform |-> p, text |-> t])

\* POST /generate-post up to its first await's return: the audio is read
\* and transcribed.
GenerateStart ==
    /\ reqNo < MaxRequests
    /\ gp.pc \in {"idle", "done"}
    /\ \E o \in TranscribeOutcomes :
         gp' = [IdlePipeline EXCEPT !.pc = "transcribed",
                                    !.transcribe_failed = o.failed,
                                    !.transcript = o.text]
    /\ reqNo' = reqNo + 1
    /\ req' = [NoRequest EXCEPT !.handler = "generate_post"]
    /\ UNCHANGED <<now, jobs, published, resp, gated>>

\* An exception leaves the handler: FastAPI answers 500.
ServerError == [handler |-> "generate_post", http |-> 500, status |-> "error"]

\* {"status": "success", "variations": generated_variations, "error": None}
Success == [handler |-> "generate_post", http |-> 200, status |-> "success"]

\* {"status": "rejected", "variations": None, "error": ...}
Rejected == [handler |-> "generate_post", http |-> 200, status |-> "rejected"]

\* The transcript check, the retrieval, the average distance and the call of
\* the generator, up to the await of its result.
GenerateRetrieve ==
    /\ gp.pc = "transcribed"
    /\ IF StartsWith(gp.transcript, ErrorPrefix)
          \/ StartsWith(gp.transcript, ERRORPrefix)
       THEN /\ gp' = [gp EXCEPT !.pc = "done", !.response = ServerError]
       ELSE \E s \in SearchOutcomes, tone_ok \in AcceptsTone :
              IF s.raised
              THEN /\ gp' = [gp EXCEPT !.pc = "done", !.retrieval = "raised",
                                       !.response = ServerError]
              ELSE IF ~tone_ok
              THEN /\ gp' = [gp EXCEPT
                               !.pc = "done",
                               !.retrieval = "returned",
                               !.results = s.results,
                               !.avg_distance = Some(avg_distance(s.results)),
                               !.generation = "type_error",
                               !.response = ServerError]
              ELSE /\ gp' = [gp EXCEPT
                               !.pc = "generating",
                               !.retrieval = "returned",
                               !.results = s.results,
                               !.avg_distance = Some(avg_distance(s.results)),
                               !.generation = "awaited"]
    /\ UNCHANGED <<now, jobs, published, reqNo, req, resp, gated>>

\* The generator's result arrives: the first candidate is scored and the gate
\* decides what is returned.
GenerateFinish ==
    /\ gp.pc = "generating"
    /\ \E g \in GenerateResults :
         LET primary == PrimaryText(g)
             outcome == GenerationOutcome(g)
         IN
         IF g.kind = "raise" \/ ~primary.ok
         THEN /\ gp' = [gp EXCEPT !.pc = "done", !.generation = outcome,
                                  !.response = ServerError]
              /\ gated' = gated
         ELSE \E c_score \in
                    calculate_safety_score(primary.text, gp.avg_distance[1]) :
                LET call == [text |-> primary.text,
                             avg_distance |-> gp.avg_distance[1],
                             final_score |-> c_score]
                IN
                IF Gate(c_score)
                THEN /\ gp' = [gp EXCEPT !.pc = "done",
                                         !.generation = outcome,
                                         !.scored = <<call>>,
                                         !.variations = Some(g.items),
                                         !.response = Success]
                     /\ gated' = gated \cup {primary.text}
                ELSE /\ gp' = [gp EXCEPT !.pc = "done",
                                         !.generation = outcome,
                                         !.scored = <<call>>,
                                         !.variations = None,
                                         !.response = Rejected]
                     /\ gated' = gated
    /\ UNCHANGED <<now, jobs, published, reqNo, req, resp>>

\* -------------------------------------------------------------- scheduler

\* A due test with the comparison turned round.
IsDue_reversed(j) == jobs[j].run_date >= now

\* A job of the store is due.
IsDue(j) == jobs[j].run_date <= now

\* BaseScheduler._process_jobs, under the job store lock: every due job is
\* submitted to the executor and, its date trigger having no further fire
\* time, removed from the store.
ProcessJobs ==
    /\ \E j \in Pending : IsDue(j)
    /\ jobs' = [j \in 1..Len(jobs) |->
                  IF jobs[j].state = "pending" /\ IsDue(j)
                  THEN [jobs[j] EXCEPT !.state = "submitted"]
                  ELSE jobs[j]]
    /\ UNCHANGED <<now, published, reqNo, req, resp, gp, gated>>

\* The executor's misfire test: the run is skipped when it is later than
\* misfire_grace_time after the job's run time.
Misfired(j) == now - jobs[j].run_date > misfire_grace_time

\* executors.base.run_job in a pool thread: the job function is called unless
\* the run time was missed.
RunJob(j) ==
    /\ j \in Submitted
    /\ IF Misfired(j)
       THEN /\ jobs' = [jobs EXCEPT ![j].state = "missed"]
            /\ published' = published
       ELSE /\ jobs' = [jobs EXCEPT ![j].state = "fired"]
            /\ published' =
                   publish_to_social_media(jobs[j].platform, jobs[j].text, j)
    /\ UNCHANGED <<now, reqNo, req, resp, gp, gated>>

RunJobs == \E j \in 1..MaxJobs : RunJob(j)

\* A second passes.  The scheduler thread sleeps until the next run time and
\* add_job wakes it, so due work is dealt with before the clock moves on.
Tick ==
    /\ now < MaxTime
    /\ ~ \E j \in Pending : IsDue(j)
    /\ Submitted = {}
    /\ now' = now + 1
    /\ UNCHANGED <<jobs, published, reqNo, req, resp, gp, gated>>

Next ==
    \/ ConfirmPost
    \/ GenerateStart
    \/ GenerateRetrieve
    \/ GenerateFinish
    \/ ProcessJobs
    \/ RunJobs
    \/ Tick

Spec == Init /\ [][Next]_vars

\* ----------------------------------------------------------------- claims

\* The number of calls of the publish action made for job j.
PublishCount(j) ==
    Cardinality({i \in 1..Len(published) : published[i].job = j})

\* The scheduler has dealt with job j: it is neither in the store nor waiting
\* in the executor.
Settled(j) == jobs[j].state \notin {"pending", "submitted"}

\* C1: once the clock has passed an accepted job's due time and the scheduler
\* has dealt with the job, its publish action has been called exactly once.
C1_FiredExactlyOnce ==
    \A j \in 1..Len(jobs) :
        (now > jobs[j].run_date /\ Settled(j)) => PublishCount(j) = 1

\* The generate-post request in flight ended with the scorer called.
Scored == gp.pc = "done" /\ gp.scored # << >>

FinalScore == gp.scored[1].final_score

\* A step of the generate-post handler.
GenerateStep == gp' # gp

\* The step of the generate-post handler that answers after the scorer ran.
GateStep == gp.pc = "generating" /\ gp'.pc = "done" /\ gp'.scored # << >>

ConfirmStep == reqNo' = reqNo + 1 /\ req'.handler = "confirm_post"

\* C4: a confirm-post request whose scheduled_time is present and is not a
\* valid ISO-8601 string is answered 400, registers no job and does not call
\* the publish action.
C4_InvalidTimeIsClientError ==
    [][(/\ ConfirmStep
        /\ req'.scheduled_time # None
        /\ ~fromisoformat(req'.scheduled_time[1]).ok)
          => /\ resp'.http = 400
             /\ jobs' = jobs
             /\ published' = published]_vars

\* C5: a job accepted with a due time in the past or equal to now is never
\* discarded without its publish action having been called.
C5_PastDueJobFires ==
    \A j \in 1..Len(jobs) :
        jobs[j].past_due => jobs[j].state # "missed"

\* C6: a confirm-post request with no scheduled_time calls the publish action
\* exactly once, in the handler, with the request's platform and text, and
\* leaves the scheduler's jobs as they were.
C6_AbsentTimePublishesInHandler ==
    [][(ConfirmStep /\ req'.scheduled_time = None)
          => /\ published' = Append(published, [platform |-> req'.platform,
                                                text |-> req'.text,
                                                job |-> 0])
             /\ jobs' = jobs
             /\ resp'.status = "published_immediately"]_vars

C6_Witness ==
    /\ req.handler = "confirm_post"
    /\ req.scheduled_time = None
    /\ resp.status = "published_immediately"
    /\ published # << >>
    /\ published[Len(published)].job = 0
    /\ Pending # {}

\* C7: a confirm-post request with a future due time returns with the job
\* pending and without a call of the publish action, and a job's publish
\* action is called only by the scheduler, never before the job's due time.
C7_FutureJobFiresOnlyWhenDue ==
    [][/\ (/\ ConfirmStep
           /\ Truthy(req'.scheduled_time)
           /\ fromisoformat(req'.scheduled_time[1]).ok
           /\ Timestamp(fromisoformat(req'.scheduled_time[1])) > now)
            => /\ published' = published
               /\ resp'.status = "scheduled"
               /\ Len(jobs') = Len(jobs) + 1
               /\ jobs'[Len(jobs')].state = "pending"
               /\ jobs'[Len(jobs')].run_date
                      = Timestamp(fromisoformat(req'.scheduled_time[1]))
       /\ \A j \in 1..Len(jobs) :
            PublishCount(j)' # PublishCount(j)
              => /\ jobs[j].run_date <= now
                 /\ jobs[j].state = "submitted"
                 /\ jobs'[j].state = "fired"
                 /\ PublishCount(j) = 0]_vars

C7_Witness ==
    \E j \in 1..Len(jobs) :
        /\ ~jobs[j].past_due
        /\ jobs[j].run_date > 0
        /\ jobs[j].state = "fired"
        /\ PublishCount(j) = 1

\* C8: when transcription fails or gives an empty transcript, generate-post
\* answers an error and calls neither the retrieval, the generator nor the
\* scorer.
C8_TranscriptionFailureAborts ==
    (gp.pc = "done" /\ (gp.transcribe_failed \/ gp.transcript = EmptyStr))
      => /\ gp.response = ServerError
         /\ gp.retrieval = "not_called"
         /\ gp.generation = "not_called"
         /\ gp.scored = << >>

\* The generator failed: the call or the awaited result raised, or the result
\* is the str of the except branch.
GenerationFailed == gp.generation \in {"type_error", "raised", "error_str"}

C10_RetrievalFailureDegrades ==
    /\ (gp.pc = "done" /\ gp.retrieval = "raised")
         => /\ gp.avg_distance = Some(SentinelDistance)
            /\ gp.generation # "not_called"
            /\ gp.response # ServerError
    /\ Scored
         => /\ (gp.scored[1].avg_distance = SentinelDistance)
                  <=> (gp.results = << >>)
            /\ gp.results # << >>
                  => gp.scored[1].avg_distance * Len(gp.results)
                       = Sum(gp.results)

\* C11: every text handed to the publish action, in the handler or by a
\* scheduled job, and every text bound to a job, is a text the gate had let
\* through (score at least 0.75) before.
C11_PublishedTextPassedGate ==
    /\ \A i \in 1..Len(published) : published[i].text \in gated
    /\ \A j \in 1..Len(jobs) : jobs[j].text \in gated

==========================================================================
